---------------------------- MODULE Spec2Model ----------------------------
(***************************************************************************)
(* Model of flopy/modflowlgr/mflgr.py: the LgrChild coupling record and    *)
(* the ModflowLgr configuration (constructor, ngrids, write_input,         *)
(* write_name_file, change_model_ws, load).                                *)
(*                                                                         *)
(* Python strings are sequences of one-character strings, so that          *)
(* str.split, str.lower, int() and the os.path functions are computed the  *)
(* way the interpreter computes them.                                      *)
(***************************************************************************)
EXTENDS Integers, Sequences, FiniteSets, TLC

VARIABLES
    lgr,        \* the ModflowLgr instance, or None before one exists
    modelWs,    \* heap of external Modflow models: model id |-> its _model_ws
    recs,       \* the LgrChild records the caller has built, in order
    op,         \* the operation that ran last
    target,     \* the new_pth argument of the last change_model_ws
    ctlFile,    \* the lines of the control file the last load was given
    err,        \* the exception the last operation raised, or None
    events,     \* the external calls and file writes the last operation issued
    leaked,     \* file handles the last operation opened and left open
    ncalls      \* operations performed on the instance so far

vars == <<lgr, modelWs, recs, op, target, ctlFile, err, events, leaked, ncalls>>

None == "None"      \* the name of "no exception" in err

\* A Python value that may be None: <<>> is None, <<v>> is the value v
NoneV == <<>>
Some(v) == <<v>>

\* F applied to the value of v, computed once
Let1(v, F(_)) == CHOOSE r \in { F(x) : x \in { v } } : TRUE

(***************************************************************************)
(* Bounds of the model.                                                    *)
(***************************************************************************)
MaxChildren == 2    \* length of the children / children_data lists passed in
MaxBlocks == 2      \* child blocks present in a control file
MaxCalls == 2       \* operations performed on one ModflowLgr instance

(***************************************************************************)
(* Python str methods.                                                     *)
(***************************************************************************)
UpperCase == <<"A","B","C","D","E","F","G","H","I","J","K","L","M",
               "N","O","P","Q","R","S","T","U","V","W","X","Y","Z">>
LowerCase == <<"a","b","c","d","e","f","g","h","i","j","k","l","m",
               "n","o","p","q","r","s","t","u","v","w","x","y","z">>
Digits == <<"0","1","2","3","4","5","6","7","8","9">>
WhiteSpace == {" ", "\t", "\n", "\r"}

IndexIn(c, tbl) == IF \E i \in DOMAIN tbl : tbl[i] = c
                   THEN CHOOSE i \in DOMAIN tbl : tbl[i] = c
                   ELSE 0

\* str.lower(): every cased character mapped to its lowercase form
lowerChar_Identity(c) == c
lowerChar(c) == IF IndexIn(c, UpperCase) = 0 THEN c
                ELSE LowerCase[IndexIn(c, UpperCase)]
lower(s) == [i \in DOMAIN s |-> lowerChar(s[i])]

\* str.split(sep) for a one-character separator: empty fields are kept
RECURSIVE splitOn(_, _, _)
splitOn(s, sep, cur) ==
    IF s = <<>> THEN <<cur>>
    ELSE IF Head(s) = sep THEN <<cur>> \o splitOn(Tail(s), sep, <<>>)
    ELSE splitOn(Tail(s), sep, Append(cur, Head(s)))

\* str.split(): fields separated by runs of whitespace, no empty fields
RECURSIVE splitWs(_, _)
splitWs(s, cur) ==
    IF s = <<>> THEN (IF cur = <<>> THEN <<>> ELSE <<cur>>)
    ELSE IF Head(s) \in WhiteSpace
         THEN (IF cur = <<>> THEN <<>> ELSE <<cur>>) \o splitWs(Tail(s), <<>>)
         ELSE splitWs(Tail(s), Append(cur, Head(s)))
split(s) == splitWs(s, <<>>)

\* sep.join(parts)
RECURSIVE joinWith(_, _)
joinWith(sep, parts) ==
    IF parts = <<>> THEN <<>>
    ELSE IF Len(parts) = 1 THEN parts[1]
    ELSE parts[1] \o <<sep>> \o joinWith(sep, Tail(parts))

\* int(token) succeeds on an optional sign followed by decimal digits and
\* raises ValueError on anything else; isInt is the success condition
RECURSIVE digitsValue(_, _)
digitsValue(s, acc) ==
    IF s = <<>> THEN acc
    ELSE digitsValue(Tail(s), 10 * acc + (IndexIn(Head(s), Digits) - 1))
isDigits(s) == s # <<>> /\ \A i \in DOMAIN s : IndexIn(s[i], Digits) # 0
hasSign(tok) == tok # <<>> /\ Head(tok) \in {"-", "+"}
unsigned(tok) == IF hasSign(tok) THEN Tail(tok) ELSE tok
isInt(tok) == isDigits(unsigned(tok))
int(tok) == IF Head(tok) = "-" THEN 0 - digitsValue(unsigned(tok), 0)
            ELSE digitsValue(unsigned(tok), 0)

\* float(token) succeeds on digits with at most one decimal point (sign
\* optional); the value is kept as <<digits without the point as an integer,
\* number of digits after the point>>
floatFields(tok) == splitOn(unsigned(tok), ".", <<>>)
floatDigits(tok) == IF Len(floatFields(tok)) = 2
                    THEN floatFields(tok)[1] \o floatFields(tok)[2]
                    ELSE unsigned(tok)
isFloat(tok) == Len(floatFields(tok)) \in {1, 2} /\ isDigits(floatDigits(tok))
float(tok) ==
    <<(IF Head(tok) = "-" THEN 0 - digitsValue(floatDigits(tok), 0)
       ELSE digitsValue(floatDigits(tok), 0)),
      (IF Len(floatFields(tok)) = 2 THEN Len(floatFields(tok)[2]) ELSE 0)>>

(***************************************************************************)
(* os.path (posixpath) as change_model_ws and load use it.                 *)
(***************************************************************************)
Cwd == <<"/", "w">>          \* os.getcwd()

startsWithSlash(p) == p # <<>> /\ p[1] = "/"
endsWithSlash(p) == p # <<>> /\ p[Len(p)] = "/"

\* os.path.join(a, b)
join(a, b) ==
    IF startsWithSlash(b) THEN b
    ELSE IF a = <<>> \/ endsWithSlash(a) THEN a \o b
    ELSE a \o <<"/">> \o b

\* the component stack of os.path.normpath
RECURSIVE normComps(_, _, _)
normComps(comps, isAbs, acc) ==
    IF comps = <<>> THEN acc
    ELSE LET c == Head(comps) IN
         IF c = <<>> \/ c = <<".">> THEN normComps(Tail(comps), isAbs, acc)
         ELSE IF c # <<".", ".">>
                 \/ (~isAbs /\ acc = <<>>)
                 \/ (acc # <<>> /\ acc[Len(acc)] = <<".", ".">>)
              THEN normComps(Tail(comps), isAbs, Append(acc, c))
         ELSE IF acc # <<>>
              THEN normComps(Tail(comps), isAbs, SubSeq(acc, 1, Len(acc) - 1))
         ELSE normComps(Tail(comps), isAbs, acc)

\* os.path.normpath(p)
normpath(p) ==
    IF p = <<>> THEN <<".">>
    ELSE LET isAbs == startsWithSlash(p)
             body == joinWith("/", normComps(splitOn(p, "/", <<>>), isAbs, <<>>))
             out == IF isAbs THEN <<"/">> \o body ELSE body
         IN  IF out = <<>> THEN <<".">> ELSE out

\* os.path.abspath(p)
abspath(p) == IF startsWithSlash(p) THEN normpath(p) ELSE normpath(join(Cwd, p))

nonEmpty(comps) == SelectSeq(comps, LAMBDA c : c # <<>>)

RECURSIVE commonLen(_, _)
commonLen(a, b) ==
    IF a = <<>> \/ b = <<>> \/ Head(a) # Head(b) THEN 0
    ELSE 1 + commonLen(Tail(a), Tail(b))

\* os.path.relpath(path, start)
relpath(path, start) ==
    LET startList == nonEmpty(splitOn(abspath(start), "/", <<>>))
        pathList == nonEmpty(splitOn(abspath(path), "/", <<>>))
        i == commonLen(startList, pathList)
        relList == [k \in 1..(Len(startList) - i) |-> <<".", ".">>]
                   \o SubSeq(pathList, i + 1, Len(pathList))
    IN  IF relList = <<>> THEN <<".">> ELSE joinWith("/", relList)

\* os.path.dirname(p) and os.path.basename(p)
lastSlash(p) == IF \E i \in DOMAIN p : p[i] = "/"
                THEN CHOOSE i \in DOMAIN p : p[i] = "/" /\ \A j \in DOMAIN p : p[j] = "/" => j <= i
                ELSE 0
RECURSIVE rstripSlash(_)
rstripSlash(p) == IF endsWithSlash(p) THEN rstripSlash(SubSeq(p, 1, Len(p) - 1)) ELSE p
dirname(p) ==
    LET head == SubSeq(p, 1, lastSlash(p))
    IN  IF head # <<>> /\ \E i \in DOMAIN head : head[i] # "/"
        THEN rstripSlash(head) ELSE head
basename(p) == SubSeq(p, lastSlash(p) + 1, Len(p))


(***************************************************************************)
(* The environment: the file system as os.path.exists / os.makedirs see it *)
(***************************************************************************)
\* directories that do not exist and that os.makedirs cannot create
Uncreatable == { <<"/", "r", "o">> }
\* os.path.exists(p), or os.makedirs(p) succeeds
usable(p) == p \notin Uncreatable

(***************************************************************************)
(* class LgrChild                                                          *)
(***************************************************************************)
\* the keyword defaults of LgrChild.__init__; ncppl is passed either as an
\* int, <<"int", n>>, or as a list, <<"list", <<n1, ...>>>>
LgrChildDefaults ==
    [ishflg |-> 1, ibflg |-> 59, iucbhsv |-> 0, iucbfsv |-> 0,
     mxlgriter |-> 20, ioutlgr |-> 1, relaxh |-> <<4, 1>>, relaxf |-> <<4, 1>>,
     hcloselgr |-> <<5, 3>>, fcloselgr |-> <<5, 2>>,
     nplbeg |-> 0, nprbeg |-> 0, npcbeg |-> 0,
     nplend |-> 0, nprend |-> 1, npcend |-> 1,
     ncpp |-> 2, ncppl |-> <<"int", 1>>]

\* LgrChild.__init__(**kw): every argument is stored as given; an int ncppl
\* is wrapped in a one-element list
LgrChild(kw) ==
    [kw EXCEPT !.ncppl = IF kw.ncppl[1] = "int" THEN <<kw.ncppl[2]>>
                         ELSE kw.ncppl[2]]

(***************************************************************************)
(* class ModflowLgr                                                        *)
(***************************************************************************)
\* the value of lgr before any ModflowLgr exists
NoLgr == [built |-> FALSE, model_ws |-> <<>>, parent |-> 0,
          children_models |-> NoneV, children_data |-> NoneV, children |-> 0]

\* isinstance(x, list) for an argument passed as <<"list", l>> or <<"obj", v>>
isList(arg) == arg[1] = "list"

\* ModflowLgr.__init__(model_ws, parent, children, children_data); parent is a
\* model id, 0 for None; children and children_data are NoneV or Some(arg)
ModflowLgrInit(model_ws, parent, children, children_data) ==
    LET cm == IF children = NoneV THEN NoneV
              ELSE IF isList(children[1]) THEN Some(children[1][2])
              ELSE Some(<<children[1][2]>>)
        cd == IF children_data = NoneV THEN NoneV
              ELSE IF isList(children_data[1]) THEN Some(children_data[1][2])
              ELSE Some(<<children_data[1][2]>>)
    IN  [built |-> TRUE, model_ws |-> model_ws, parent |-> parent,
         children_models |-> cm, children_data |-> cd,
         children |-> IF cm = NoneV THEN 0 ELSE Len(cm[1])]

\* the ngrids property
ngrids_ChildrenOnly(self) == self.children
ngrids(self) == 1 + self.children

\* one entry of the log of calls: the call, what is written (for a write),
\* the model or number concerned, the path handed over
Ev(call, what, n, path) ==
    [call |-> call, what |-> what, n |-> n, path |-> path, name |-> <<>>]

\* the result of an operation: the instance, the heap of models, the
\* exception raised, the calls issued and the handles left open
Result(l, heap, e, evs, open) ==
    [lgr |-> l, heap |-> heap, err |-> e, events |-> evs, leaked |-> open]

(***************************************************************************)
(* The external Modflow model (flopy.modflow.Modflow, flopy.mbase)         *)
(***************************************************************************)
\* model.change_model_ws(new_pth): the model's workspace becomes new_pth
Modflow_change_model_ws(heap, m, new_pth) == [heap EXCEPT ![m] = new_pth]

(***************************************************************************)
(* ModflowLgr.change_model_ws                                              *)
(***************************************************************************)
\* lines 309-320: None means the current directory; a directory that does
\* not exist and cannot be created is replaced by the current directory
effectivePth(new_pth) ==
    LET p == IF new_pth = NoneV THEN Cwd ELSE new_pth[1]
    IN  IF usable(p) THEN p ELSE Cwd

\* lines 328-334 and 339-345: the workspace handed to one model
npthFor_AlwaysJoin(old_pth, model_ws, new_pth) ==
    join(new_pth, relpath(abspath(model_ws), abspath(old_pth)))
npthFor(old_pth, model_ws, new_pth) ==
    LET lpth == abspath(old_pth)
        mpth == abspath(model_ws)
        rpth == relpath(mpth, lpth)
    IN  IF rpth = <<".">> THEN new_pth ELSE join(new_pth, rpth)

\* lines 338-347: the loop over self.children_models
RECURSIVE relocateChildren(_, _, _, _, _)
relocateChildren(children, heap, old_pth, new_pth, evs) ==
    IF children = <<>> THEN [heap |-> heap, events |-> evs]
    ELSE Let1(npthFor(old_pth, heap[Head(children)], new_pth),
              LAMBDA npth :
                relocateChildren(Tail(children),
                                 Modflow_change_model_ws(heap, Head(children), npth),
                                 old_pth, new_pth,
                                 Append(evs, Ev("change_model_ws", "",
                                                Head(children), npth))))

relocateAll(self, heap, old_pth, new_pth) ==
    Let1(npthFor(old_pth, heap[self.parent], new_pth),
         LAMBDA npth :
           IF self.children_models = NoneV
           THEN Result(self, Modflow_change_model_ws(heap, self.parent, npth),
                       "TypeError",
                       << Ev("change_model_ws", "", self.parent, npth) >>, 0)
           ELSE Let1(relocateChildren(self.children_models[1],
                         Modflow_change_model_ws(heap, self.parent, npth),
                         old_pth, new_pth,
                         << Ev("change_model_ws", "", self.parent, npth) >>),
                     LAMBDA r : Result(self, r.heap, None, r.events, 0)))

change_model_ws(self, heap, new_pth_arg) ==
    LET new_pth == effectivePth(new_pth_arg)
        old_pth == self.model_ws
        self1 == [self EXCEPT !.model_ws = new_pth]
    IN  IF self.parent = 0
        THEN Result(self1, heap, "AttributeError", <<>>, 0)
        ELSE relocateAll(self1, heap, old_pth, new_pth)

(***************************************************************************)
(* ModflowLgr.write_name_file and ModflowLgr.write_input                   *)
(***************************************************************************)
\* attributes ModflowLgr reads but never sets (heading, namefile, iupbhsv,
\* iupbfsv) come from BaseModel: the lookup yields a value to format
BaseModel_getattr(self, name) == name

\* write_name_file: the handle is opened, six records are written, the handle
\* is closed; self.parent._model_ws raises when there is no parent
write_name_file(self, heap) ==
    LET head == << Ev("open", "", 0, <<>>),
                   Ev("write", BaseModel_getattr(self, "heading"), 0, <<>>),
                   Ev("write", "LGR", 0, <<>>),
                   Ev("write", "NGRIDS", ngrids(self), <<>>) >>
    IN  IF self.parent = 0
        THEN Result(self, heap, "AttributeError", head, 1)
        ELSE Result(self, heap, None,
                    head \o << Ev("write", "PARENT NAMEFILE", self.parent,
                                  heap[self.parent]),
                               Ev("write", "GRIDSTATUS", 0, <<>>),
                               Ev("write", BaseModel_getattr(self, "iupbhsv"), 0, <<>>),
                               Ev("close", "", 0, <<>>) >>,
                    0)

\* the calls of child.write_input() in the loop of lines 176-177; call number
\* failAt of the whole write_input raises inside the external writer
RECURSIVE writeChildren_LastFirst(_, _, _, _)
writeChildren_LastFirst(children, callNo, failAt, evs) ==
    IF children = <<>> THEN [err |-> None, events |-> evs]
    ELSE LET evs1 == Append(evs, Ev("write_input", "", children[Len(children)], <<>>))
         IN  IF callNo = failAt THEN [err |-> "ExternalError", events |-> evs1]
             ELSE writeChildren_LastFirst(SubSeq(children, 1, Len(children) - 1),
                                          callNo + 1, failAt, evs1)
RECURSIVE writeChildren(_, _, _, _)
writeChildren(children, callNo, failAt, evs) ==
    IF children = <<>> THEN [err |-> None, events |-> evs]
    ELSE LET evs1 == Append(evs, Ev("write_input", "", Head(children), <<>>))
         IN  IF callNo = failAt THEN [err |-> "ExternalError", events |-> evs1]
             ELSE writeChildren(Tail(children), callNo + 1, failAt, evs1)

write_input(self, heap, failAt) ==
    Let1(write_name_file(self, heap),
         LAMBDA nf :
           IF nf.err # None THEN nf
           ELSE Let1(Append(nf.events, Ev("write_input", "", self.parent, <<>>)),
                     LAMBDA evs1 :
                       IF failAt = 1
                       THEN Result(self, heap, "ExternalError", evs1, nf.leaked)
                       ELSE IF self.children_models = NoneV
                       THEN Result(self, heap, "TypeError", evs1, nf.leaked)
                       ELSE Let1(writeChildren(self.children_models[1], 2,
                                               failAt, evs1),
                                 LAMBDA w :
                                   Result(self, heap, w.err, w.events, nf.leaked))))


(***************************************************************************)
(* ModflowLgr.load                                                         *)
(***************************************************************************)
\* f.readline(): the line at position pos, '' at the end of the file
readline(file, pos) == IF pos <= Len(file) THEN file[pos] ELSE <<>>

\* the literal markers of datasets 1, 4 and 7
MarkerLgr == <<"l","g","r">>
MarkerParentOnly == <<"p","a","r","e","n","t","o","n","l","y">>
MarkerChildOnly == <<"c","h","i","l","d","o","n","l","y">>

\* lines 391-395: the position of the first line that does not begin with
\* '#'; 0 when line[0] raises IndexError on the '' read at the end of file
RECURSIVE skipHeader(_, _)
skipHeader(file, pos) ==
    LET line == readline(file, pos)
    IN  IF line = <<>> THEN 0
        ELSE IF line[1] # "#" THEN pos
        ELSE skipHeader(file, pos + 1)

\* the exception raised by conv(t[0]), ..., conv(t[n-1]) evaluated left to
\* right: IndexError on a missing token, ValueError on one conv rejects
converts(tok, conv) == IF conv = "int" THEN isInt(tok) ELSE isFloat(tok)
RECURSIVE convErr(_, _, _, _)
convErr(t, k, n, conv) ==
    IF k > n THEN None
    ELSE IF k > Len(t) THEN "IndexError"
    ELSE IF ~converts(t[k], conv) THEN "ValueError"
    ELSE convErr(t, k + 1, n, conv)
ints(t, n) == [k \in 1..n |-> int(t[k])]
floats(t, n) == [k \in 1..n |-> float(t[k])]

\* t[0].lower() == marker for the first token of a line: IndexError when the
\* line has no token, AssertionError when the comparison fails
markerErr(line, marker, ds) ==
    LET t == split(line)
    IN  IF t = <<>> THEN "IndexError"
        ELSE IF lower(t[1]) # marker THEN ds
        ELSE None

\* the first exception in a sequence of outcomes, None when there is none
firstErr(errs) == Head(SelectSeq(errs, LAMBDA e : e # None) \o << None >>)

\* lines 486-487 and 492-493: a one-based index of the file, stored zero-based
zeroBased_Kept(v) == v
zeroBased(v) == v - 1

\* lines 448-519: datasets 6 to 15 of one child, read from position pos, and
\* the LgrChild built from them
loadChildData(file, pos, model_ws) ==
    LET t6 == split(readline(file, pos))
        t8 == split(readline(file, pos + 2))
        t9 == split(readline(file, pos + 3))
        t10 == split(readline(file, pos + 4))
        t11 == split(readline(file, pos + 5))
        t12 == split(readline(file, pos + 6))
        t13 == split(readline(file, pos + 7))
        t14 == split(readline(file, pos + 8))
        t15 == split(readline(file, pos + 9))
        e12 == convErr(t12, 1, 3, "int")
        e13 == convErr(t13, 1, 3, "int")
        head == firstErr(<< IF t6 = <<>> THEN "IndexError" ELSE None,
                            markerErr(readline(file, pos + 1), MarkerChildOnly,
                                      "AssertionError:ds7"),
                            convErr(t8, 1, 4, "int"),
                            convErr(t9, 1, 2, "int"),
                            convErr(t10, 1, 2, "float"),
                            convErr(t11, 1, 2, "float"),
                            e12, e13,
                            convErr(t14, 1, 1, "int") >>)
    IN  IF head # None THEN [err |-> head, data |-> LgrChildDefaults,
                             cws |-> <<>>, cn |-> <<>>]
        ELSE LET nplbeg == zeroBased(int(t12[1]))
                 nplend == zeroBased(int(t13[1]))
                 n == nplend + 1 - nplbeg
                 e15 == convErr(t15, 1, n, "int")
             IN  IF e15 # None THEN [err |-> e15, data |-> LgrChildDefaults,
                                     cws |-> <<>>, cn |-> <<>>]
                 ELSE [err |-> None,
                       cws |-> join(model_ws, dirname(t6[1])),
                       cn |-> basename(t6[1]),
                       data |-> LgrChild(
                           [ishflg |-> int(t8[1]), ibflg |-> int(t8[2]),
                            iucbhsv |-> int(t8[3]), iucbfsv |-> int(t8[4]),
                            mxlgriter |-> int(t9[1]), ioutlgr |-> int(t9[2]),
                            relaxh |-> float(t10[1]), relaxf |-> float(t10[2]),
                            hcloselgr |-> float(t11[1]),
                            fcloselgr |-> float(t11[2]),
                            nplbeg |-> nplbeg, nprbeg |-> zeroBased(int(t12[2])),
                            npcbeg |-> zeroBased(int(t12[3])),
                            nplend |-> nplend, nprend |-> zeroBased(int(t13[2])),
                            npcend |-> zeroBased(int(t13[3])),
                            ncpp |-> int(t14[1]),
                            ncppl |-> <<"list", ints(t15, IF n > 0 THEN n ELSE 0)>>])]

\* an external Modflow.load call: name, workspace, number of the call
LoadEv(cn, ws, callNo) ==
    [call |-> "Modflow.load", what |-> "", n |-> callNo, path |-> ws, name |-> cn]

\* lines 445-523: the loop over range(nchildren). Child k is read from the
\* ten lines that follow those of child k - 1; the loop ends at the first
\* child whose records raise, or whose external load (call number k + 1 of
\* this load) raises
childrenRead(file, pos, model_ws, nchildren) ==
    <<>> \o [k \in 1..nchildren |-> loadChildData(file, pos + 10 * (k - 1), model_ws)]
loopOver(cs, failAt, pws, pn) ==
    LET bad == { k \in DOMAIN cs : cs[k].err # None \/ failAt = k + 1 }
        stop == IF bad = {} THEN Len(cs) + 1
                ELSE CHOOSE k \in bad : \A j \in bad : k <= j
        parsed == IF stop <= Len(cs) /\ cs[stop].err = None THEN stop ELSE stop - 1
        loaded == IF stop <= Len(cs) THEN stop - 1 ELSE Len(cs)
    IN  [err |-> IF stop > Len(cs) THEN None
                 ELSE IF cs[stop].err # None THEN cs[stop].err
                 ELSE "LoaderError",
         events |-> << LoadEv(pn, pws, 1) >> \o
                    [k \in 1..parsed |-> LoadEv(cs[k].cn, cs[k].cws, k + 1)],
         heap |-> << pws >> \o [k \in 1..loaded |-> cs[k].cws],
         children |-> <<>> \o [k \in 1..loaded |-> k + 1],
         children_data |-> <<>> \o [k \in 1..parsed |-> cs[k].data]]
loadChildren(file, pos, model_ws, nchildren, failAt, pws, pn) ==
    Let1(childrenRead(file, pos, model_ws, nchildren),
         LAMBDA cs : loopOver(cs, failAt, pws, pn))

\* lines 426-438: dataset 5. Any failure of the two conversions is turned into
\* the ValueError of line 430; a positive sum raises the one of line 438
ds5Err_BothPositive(t5) ==
    IF convErr(t5, 1, 2, "int") # None THEN "ValueError:ds5"
    ELSE IF int(t5[1]) > 0 /\ int(t5[2]) > 0 THEN "ValueError:unsupported"
    ELSE None
ds5Err(t5) ==
    IF convErr(t5, 1, 2, "int") # None THEN "ValueError:ds5"
    ELSE IF int(t5[1]) + int(t5[2]) > 0 THEN "ValueError:unsupported"
    ELSE None

\* lines 397-443: datasets 1 to 5 read from position pos; the exception they
\* raise, or None
topErr(file, pos) ==
    LET t2 == split(readline(file, pos + 1))
        t3 == split(readline(file, pos + 2))
        t5 == split(readline(file, pos + 4))
    IN  firstErr(<< markerErr(readline(file, pos), MarkerLgr, "AssertionError:ds1"),
                    convErr(t2, 1, 1, "int"),
                    IF t3 = <<>> THEN "IndexError" ELSE None,
                    markerErr(readline(file, pos + 3), MarkerParentOnly,
                              "AssertionError:ds4"),
                    ds5Err(t5) >>)

\* ModflowLgr.load(f, model_ws): f is a path (isHandle = FALSE) naming a file
\* that may not exist, or an open handle; file is the text behind f
loadModels(file, pos, model_ws, failAt) ==
    LET nchildren == int(split(readline(file, pos + 1))[1]) - 1
        namefile == split(readline(file, pos + 2))[1]
        pws == join(model_ws, dirname(namefile))
        pn == basename(namefile)
    IN  IF failAt = 1
        THEN Result(NoLgr, <<>>, "LoaderError", << LoadEv(pn, pws, 1) >>, 1)
        ELSE Let1(loadChildren(file, pos + 5, model_ws, nchildren, failAt, pws, pn),
                  LAMBDA r :
                    IF r.err # None
                    THEN Result(NoLgr, <<>>, r.err, r.events, 1)
                    ELSE Result(ModflowLgrInit(model_ws, 1,
                                               Some(<<"list", r.children>>),
                                               Some(<<"list", r.children_data>>)),
                                r.heap, None, r.events, 1))
load(isHandle, exists, file, model_ws, failAt) ==
    IF isHandle THEN Result(NoLgr, <<>>, "TypeError", <<>>, 0)
    ELSE IF ~exists THEN Result(NoLgr, <<>>, "IOError", <<>>, 0)
    ELSE Let1(skipHeader(file, 1),
              LAMBDA pos :
                IF pos = 0 THEN Result(NoLgr, <<>>, "IndexError", <<>>, 1)
                ELSE Let1(topErr(file, pos),
                          LAMBDA e :
                            IF e # None THEN Result(NoLgr, <<>>, e, <<>>, 1)
                            ELSE loadModels(file, pos, model_ws, failAt)))

(***************************************************************************)
(* Inputs                                                                  *)
(***************************************************************************)
SeqsUpTo(S, n) == UNION { [1..k -> S] : k \in 0..n }

\* workspaces of the configuration and of the caller's models, and the
\* new_pth arguments of change_model_ws
P_a == <<"/","a">>
P_aq == <<"/","a","/","q">>
P_as == <<"/","a","/","s">>
P_y == <<"/","y">>
P_dot == <<".">>
P_b == <<"/","b">>
P_ro == <<"/","r","o">>
LgrWsSet == { P_a, P_aq }
TargetSet == { NoneV, Some(P_b), Some(P_ro) }

\* the Modflow models the caller has built: model id |-> workspace
CallerModels == << P_a, P_as, P_y, P_a >>

\* keyword arguments of direct LgrChild(...) calls
KwSet == { [LgrChildDefaults EXCEPT !.nplend = e, !.ncppl = c] :
             e \in {0, 1}, c \in { <<"int", 1>>, <<"list", <<3, 3>>>> } }

\* the children argument of ModflowLgr(...): None, one model, a list
ChildrenArgs(models) ==
    { NoneV } \cup { Some(<<"obj", m>>) : m \in models }
    \cup { Some(<<"list", l>>) : l \in SeqsUpTo(models, MaxChildren) }

\* the children_data argument: None, one record, a list of the records built
DataArgs(pool) ==
    { NoneV } \cup { Some(<<"obj", pool[i]>>) : i \in DOMAIN pool }
    \cup { Some(<<"list", SubSeq(pool, 1, k)>>) : k \in 0..Len(pool) }

\* children_data lists of default records
DefaultData ==
    { NoneV } \cup { Some(<<"list", [i \in 1..k |-> LgrChild(LgrChildDefaults)]>>) :
                       k \in 0..MaxChildren }

\* lines of a control file
Ds0Set == { <<>>, << <<"#"," ","c","\n">> >> }
Ds1Set == { <<"L","G","R","\n">>,
      <<"l","g","r"," ","x","\n">>,
      <<" ","L","g","r","\n">>,
      <<"l","g","\n">>,
      <<"l","g","r","x","\n">>,
      <<"\n">> }
Ds2Base == <<"1","\n">>
Ds2Set == { <<"1","\n">>,
      <<"2","\n">>,
      <<"3","\n">>,
      <<"0","\n">>,
      <<"x","\n">> }
Ds3Base == <<"p",".","n","a","m","\n">>
Ds3Set == { <<"p",".","n","a","m","\n">>,
      <<"s","/","p",".","n","a","m"," "," ","#"," ","p","a","r","e","n","t","\n">> }
Ds4Base == <<"P","A","R","E","N","T","O","N","L","Y","\n">>
Ds4Set == { <<"P","A","R","E","N","T","O","N","L","Y","\n">>,
      <<"p","a","r","e","n","t","o","n","l","y"," ","\n">>,
      <<"P","a","r","e","n","t","O","n","l","y"," ","#"," ","x","\n">>,
      <<"p","a","r","e","n","t","_","o","n","l","y","\n">>,
      <<"c","h","i","l","d","o","n","l","y","\n">>,
      <<" ","\n">> }
Ds5Base == <<"0"," ","0","\n">>
Ds5Set == { <<"0"," ","0","\n">>,
      <<"1"," ","0","\n">>,
      <<"0"," ","2","\n">>,
      <<"-","1"," ","2","\n">>,
      <<"1"," ","-","1","\n">>,
      <<"0","\n">>,
      <<"a"," ","0","\n">>,
      <<"3"," ","4"," ","x","\n">> }
Ds6Set == { <<"c",".","n","a","m","\n">> }
Ds7Base == <<"C","H","I","L","D","O","N","L","Y","\n">>
Ds7Set == { <<"C","H","I","L","D","O","N","L","Y","\n">>,
      <<"C","h","i","l","d","O","n","l","y"," ","x","\n">>,
      <<"c","h","i","l","d","_","o","n","l","y","\n">>,
      <<"p","a","r","e","n","t","o","n","l","y","\n">> }
Ds8Base == <<"1"," ","5","9"," ","0"," ","0","\n">>
Ds8Set == { <<"1"," ","5","9"," ","0"," ","0","\n">>,
      <<"1"," ","5","9"," ","0","\n">>,
      <<"1"," ","x"," ","0"," ","0","\n">> }
Ds9Base == <<"2","0"," ","1","\n">>
Ds10Base == <<"0",".","4"," ","0",".","4","\n">>
Ds11Base == <<"0",".","0","0","5"," ","0",".","0","5","\n">>
Ds12Base == <<"1"," ","1"," ","1","\n">>
Ds12Set == { <<"1"," ","1"," ","1","\n">>,
      <<"2"," ","3"," ","4","\n">>,
      <<"3"," ","1"," ","1","\n">> }
Ds13Base == <<"1"," ","2"," ","2","\n">>
Ds13Set == { <<"1"," ","2"," ","2","\n">>,
      <<"2"," ","5"," ","6","\n">> }
Ds14Base == <<"2","\n">>
Ds15Base == <<"3","\n">>
Ds15Set == { <<"3","\n">>,
      <<"4"," ","5","\n">> }

\* datasets 6 to 15 of one child
Block(d6, d7, d8, d12, d13, d15) ==
    << d6, d7, d8, Ds9Base, Ds10Base, Ds11Base, d12, d13, Ds14Base, d15 >>
BlockBase == Block(<<"c",".","n","a","m","\n">>, Ds7Base, Ds8Base, Ds12Base, Ds13Base, Ds15Base)
BlockSet ==
    { Block(<<"c",".","n","a","m","\n">>, d7, Ds8Base, Ds12Base, Ds13Base, Ds15Base) : d7 \in Ds7Set }
    \cup { Block(<<"c",".","n","a","m","\n">>, Ds7Base, d8, Ds12Base, Ds13Base, Ds15Base) : d8 \in Ds8Set }
    \cup { Block(<<"s","/","c",".","n","a","m","\n">>, Ds7Base, Ds8Base, Ds12Base, <<"3"," ","3","\n">>, Ds15Base),
           Block(<<"c",".","n","a","m","\n">>, Ds7Base, Ds8Base, Ds12Base, <<"2"," ","5"," ","6","\n">>, <<"3"," ","x","\n">>) }
    \cup { Block(d6, Ds7Base, Ds8Base, d12, d13, d15) :
          d6 \in Ds6Set, d12 \in Ds12Set, d13 \in Ds13Set, d15 \in Ds15Set }

\* the line of dataset 2 that announces n grids
GridCountLine(n) == << Digits[n + 1], "\n" >>

RECURSIVE Flatten(_)
Flatten(blocks) == IF blocks = <<>> THEN <<>>
                   ELSE Head(blocks) \o Flatten(Tail(blocks))

File(d0, d1, d2, d3, d4, d5, blocks) ==
    d0 \o << d1, d2, d3, d4, d5 >> \o Flatten(blocks)

\* control files: the header and markers varied; the grid count and dataset 5
\* varied; the child blocks varied
FileSet ==
    { File(d0, d1, Ds2Base, d3, d4, Ds5Base, <<>>) :
          d0 \in Ds0Set, d1 \in Ds1Set, d3 \in Ds3Set, d4 \in Ds4Set }
    \cup { File(<<>>, <<"L","G","R","\n">>, d2, Ds3Base, Ds4Base, d5, << BlockBase >>) :
          d2 \in Ds2Set, d5 \in Ds5Set }
    \cup { File(<<>>, <<"L","G","R","\n">>, GridCountLine(Len(bs) + extra), Ds3Base, Ds4Base,
               Ds5Base, bs) :
          extra \in { 1, 2 }, bs \in SeqsUpTo(BlockSet, MaxBlocks) }
    \cup { <<>>, << <<"#"," ","o","n","l","y"," ","a"," ","c","o","m","m","e","n","t","\n">> >> }

\* well-formed control files with 0 to MaxBlocks children
GoodFiles ==
    { File(<<>>, <<"L","G","R","\n">>, d2, d3, Ds4Base, Ds5Base, [i \in 1..k |-> BlockBase]) :
          d2 \in { GridCountLine(n) : n \in 1..(MaxBlocks + 1) }, d3 \in Ds3Set,
          k \in 0..MaxBlocks }

(***************************************************************************)
(* State machine                                                           *)
(***************************************************************************)
Init ==
    /\ lgr = NoLgr
    /\ modelWs = <<>>
    /\ recs = <<>>
    /\ op = "none"
    /\ target = NoneV
    /\ ctlFile = <<>>
    /\ err = None
    /\ events = <<>>
    /\ leaked = 0
    /\ ncalls = 0

\* the state after an operation that returned res
Finish(name, tgt, text, res) ==
    /\ lgr' = res.lgr
    /\ modelWs' = res.heap
    /\ err' = res.err
    /\ events' = res.events
    /\ leaked' = res.leaked
    /\ op' = name
    /\ target' = tgt
    /\ ctlFile' = text
    /\ UNCHANGED recs

\* the caller builds one more LgrChild
NewLgrChild ==
    /\ op \in { "none", "LgrChild" }
    /\ Len(recs) < MaxChildren
    /\ \E kw \in KwSet : recs' = Append(recs, LgrChild(kw))
    /\ op' = "LgrChild"
    /\ UNCHANGED <<lgr, modelWs, target, ctlFile, err, events, leaked, ncalls>>

\* the caller calls ModflowLgr(model_ws, parent, children, children_data) on
\* models it has built
ConstructFrom(wsSet, parents, childrenSet, dataSet) ==
    /\ op \in { "none", "LgrChild" }
    /\ \E model_ws \in wsSet, parent \in parents, children \in childrenSet,
          children_data \in dataSet :
            \E self \in { ModflowLgrInit(model_ws, parent, children, children_data) } :
               Finish("ModflowLgr", NoneV, <<>>, Result(self, CallerModels, None, <<>>, 0))
    /\ UNCHANGED ncalls

\* ModflowLgr.load(f, model_ws=...) called first thing, on any of the files,
\* and on the well-formed ones with an external loader that raises
LoadFrom(files, goodFiles) ==
    /\ op = "none"
    /\ \/ \E text \in files :
             \E res \in { load(FALSE, TRUE, text, P_dot, 0) } :
                Finish("load", NoneV, text, res)
       \/ \E text \in goodFiles, model_ws \in { P_dot, P_a },
             failAt \in 0..(MaxBlocks + 1) :
             \E res \in { load(FALSE, TRUE, text, model_ws, failAt) } :
                Finish("load", NoneV, text, res)
       \/ \E isHandle \in BOOLEAN :
             \E res \in { load(isHandle, isHandle, <<>>, P_dot, 0) } :
                Finish("load", NoneV, <<>>, res)
    /\ UNCHANGED ncalls

\* lgr.change_model_ws(new_pth)
ChangeModelWs ==
    /\ lgr.built
    /\ ncalls < MaxCalls
    /\ ncalls' = ncalls + 1
    /\ \E new_pth \in TargetSet :
          \E res \in { change_model_ws(lgr, modelWs, new_pth) } :
             Finish("change_model_ws", new_pth, <<>>, res)

\* lgr.write_input(); external writer number failAt raises
WriteInput ==
    /\ lgr.built
    /\ ncalls < MaxCalls
    /\ ncalls' = ncalls + 1
    /\ \E failAt \in 0..(MaxChildren + 1) :
          /\ failAt <= 1 + (IF lgr.children_models = NoneV THEN 0
                            ELSE Len(lgr.children_models[1]))
          /\ \E res \in { write_input(lgr, modelWs, failAt) } :
                Finish("write_input", NoneV, <<>>, res)

\* every operation of a ModflowLgr
Construct == ConstructFrom({ P_a }, { 0, 1 }, ChildrenArgs({ 2, 3 }), DefaultData)
LoadGood == LoadFrom(GoodFiles, GoodFiles)
Next == Construct \/ LoadGood \/ ChangeModelWs \/ WriteInput
Spec == Init /\ [][Next]_vars

\* the two constructors on every argument shape
ConstructAny == ConstructFrom({ P_a }, { 0, 1 }, ChildrenArgs({ 2, 3 }), DataArgs(recs))
NextCtor == NewLgrChild \/ ConstructAny
SpecCtor == Init /\ [][NextCtor]_vars

\* relocation of configurations whose models lie anywhere
ConstructWs == ConstructFrom(LgrWsSet, { 0, 1, 2 }, ChildrenArgs(DOMAIN CallerModels),
                             { NoneV })
NextWs == ConstructWs \/ ChangeModelWs
SpecWs == Init /\ [][NextWs]_vars

\* loading every control file
Load == LoadFrom(FileSet, GoodFiles)
NextLoad == Load
SpecLoad == Init /\ [][NextLoad]_vars


(***************************************************************************)
(* Claims                                                                  *)
(***************************************************************************)
Count(optList) == IF optList = NoneV THEN 0 ELSE Len(optList[1])
LgrLine == <<"L","G","R","\n">>
ChildNam == <<"c",".","n","a","m","\n">>

\* C1. A control file whose datasets 1-4 are valid and whose dataset 5 holds
\* two integers with a positive sum makes load fail with the "not supported"
\* ValueError, return no configuration, and call the external loader neither
\* for the parent nor for a child.
C1_Ds5Positive == { <<"1"," ","0","\n">>, <<"0"," ","2","\n">>, <<"-","1"," ","2","\n">>,
                    <<"3"," ","4"," ","x","\n">> }
C1_Files ==
    { File(<<>>, LgrLine, d2, Ds3Base, Ds4Base, d5, << BlockBase >>) :
          d2 \in { <<"1","\n">>, <<"2","\n">>, <<"3","\n">>, <<"0","\n">> }, d5 \in C1_Ds5Positive }
C1_Ds5Rejected ==
    (op = "load" /\ ctlFile \in C1_Files)
        => (err = "ValueError:unsupported" /\ ~lgr.built /\ events = <<>>)
C1_Witness ==
    /\ op = "load"
    /\ ctlFile = File(<<>>, LgrLine, <<"2","\n">>, Ds3Base, Ds4Base, <<"-","1"," ","2","\n">>, << BlockBase >>)
    /\ err = "ValueError:unsupported"

\* C2. The markers of datasets 1, 4 and 7 are compared case-insensitively and
\* strictly: a record whose lowercased first token is the marker is accepted
\* (only the external loader can still fail), any other first token raises the
\* AssertionError of that dataset and nothing after it is read or loaded.
C2_Ds1Accept == { <<"L","G","R","\n">>, <<"l","g","r"," ","x","\n">>, <<" ","L","g","r","\n">> }
C2_Ds1Reject == { <<"l","g","\n">>, <<"l","g","r","x","\n">> }
C2_Ds4Accept == { <<"P","A","R","E","N","T","O","N","L","Y","\n">>, <<"p","a","r","e","n","t","o","n","l","y"," ","\n">>, <<"P","a","r","e","n","t","O","n","l","y"," ","#"," ","x","\n">> }
C2_Ds4Reject == { <<"p","a","r","e","n","t","_","o","n","l","y","\n">>, <<"c","h","i","l","d","o","n","l","y","\n">> }
C2_Ds7Accept == { <<"C","H","I","L","D","O","N","L","Y","\n">>, <<"C","h","i","l","d","O","n","l","y"," ","x","\n">> }
C2_Ds7Reject == { <<"c","h","i","l","d","_","o","n","l","y","\n">>, <<"p","a","r","e","n","t","o","n","l","y","\n">> }
C2_Accepted == err \in { None, "LoaderError" } /\ (err = None => lgr.built)
C2_Rejected(e, loads) == err = e /\ ~lgr.built /\ Len(events) = loads
C2_Markers ==
    op = "load" =>
        /\ \A d0 \in Ds0Set, d3 \in Ds3Set,
              d1 \in C2_Ds1Accept \cup C2_Ds1Reject,
              d4 \in C2_Ds4Accept \cup C2_Ds4Reject :
              ctlFile = File(d0, d1, Ds2Base, d3, d4, Ds5Base, <<>>) =>
                  IF d1 \in C2_Ds1Reject THEN C2_Rejected("AssertionError:ds1", 0)
                  ELSE IF d4 \in C2_Ds4Reject THEN C2_Rejected("AssertionError:ds4", 0)
                  ELSE C2_Accepted
        /\ \A d7 \in C2_Ds7Accept \cup C2_Ds7Reject :
              ctlFile = File(<<>>, LgrLine, <<"2","\n">>, Ds3Base, Ds4Base, Ds5Base,
                             << Block(ChildNam, d7, Ds8Base, Ds12Base, Ds13Base,
                                      Ds15Base) >>) =>
                  IF d7 \in C2_Ds7Reject THEN C2_Rejected("AssertionError:ds7", 1)
                  ELSE C2_Accepted
C2_Witness ==
    /\ op = "load"
    /\ ctlFile = File(<<>>, <<" ","L","g","r","\n">>, Ds2Base, Ds3Base, <<"P","a","r","e","n","t","O","n","l","y"," ","#"," ","x","\n">>, Ds5Base, <<>>)
    /\ err = None
    /\ lgr.built

\* C3. Every LgrChild that exists, built by a direct constructor call or by
\* load, has len(ncppl) = nplend - nplbeg + 1.
C3_LengthOk(r) == Len(r.ncppl) = r.nplend - r.nplbeg + 1
C3_NcpplLength ==
    /\ \A i \in DOMAIN recs : C3_LengthOk(recs[i])
    /\ lgr.children_data # NoneV =>
          \A i \in DOMAIN lgr.children_data[1] : C3_LengthOk(lgr.children_data[1][i])

\* C4. In every state of a ModflowLgr (after the constructor on any children
\* argument, after load, after any change_model_ws and write_input) ngrids is
\* the number of child models held plus one.
C4_GridCount == lgr.built => ngrids(lgr) = Count(lgr.children_models) + 1
C4_Witness ==
    /\ lgr.built
    /\ op = "change_model_ws"
    /\ ncalls = MaxCalls
    /\ Count(lgr.children_models) = 2
    /\ ngrids(lgr) = 3

\* C5. load stores the index triples of datasets 12 and 13 zero-based: each
\* stored value is the file's value minus one, so adding one gives the file's
\* values back.
C5_Ds12 == { << <<"1"," ","1"," ","1","\n">>, <<1, 1, 1>> >>, << <<"2"," ","3"," ","4","\n">>, <<2, 3, 4>> >>,
             << <<"3"," ","1"," ","1","\n">>, <<3, 1, 1>> >> }
C5_Ds13 == { << <<"1"," ","2"," ","2","\n">>, <<1, 2, 2>> >>, << <<"2"," ","5"," ","6","\n">>, <<2, 5, 6>> >> }
C5_ZeroBasedIndices ==
    (op = "load" /\ err = None) =>
        \A b \in C5_Ds12, e \in C5_Ds13, d15 \in Ds15Set :
            ctlFile = File(<<>>, LgrLine, <<"2","\n">>, Ds3Base, Ds4Base, Ds5Base,
                           << Block(ChildNam, Ds7Base, Ds8Base, b[1], e[1], d15) >>) =>
                LET r == lgr.children_data[1][1]
                IN  /\ << r.nplbeg, r.nprbeg, r.npcbeg >>
                          = << b[2][1] - 1, b[2][2] - 1, b[2][3] - 1 >>
                    /\ << r.nplend, r.nprend, r.npcend >>
                          = << e[2][1] - 1, e[2][2] - 1, e[2][3] - 1 >>
                    /\ << r.nplbeg + 1, r.nprbeg + 1, r.npcbeg + 1 >> = b[2]
                    /\ << r.nplend + 1, r.nprend + 1, r.npcend + 1 >> = e[2]
C5_Witness ==
    /\ op = "load"
    /\ err = None
    /\ ctlFile = File(<<>>, LgrLine, <<"2","\n">>, Ds3Base, Ds4Base, Ds5Base,
                      << Block(ChildNam, Ds7Base, Ds8Base, <<"2"," ","3"," ","4","\n">>, <<"2"," ","5"," ","6","\n">>, <<"3","\n">>) >>)
    /\ lgr.children_data[1][1].nprbeg = 2
    /\ lgr.children_data[1][1].npcend = 5

\* C6 as stated. A change_model_ws(new_path) that completes makes new_path the
\* configuration's workspace and relocates the parent, then each child in
\* order, to new_path/r (to new_path itself when r is '.'), where r is the
\* path of the model's workspace before the call relative to the
\* configuration's workspace before the call.
C6_Step == op' = "change_model_ws" /\ ncalls' = ncalls + 1 /\ err' = None
C6_Order == << lgr.parent >> \o lgr.children_models[1]
C6_Rel(ws) == relpath(abspath(ws), abspath(lgr.model_ws))
C6_Dest(ws, root) == IF C6_Rel(ws) = <<".">> THEN root
                     ELSE root \o <<"/">> \o C6_Rel(ws)
C6_Original ==
    [][ (C6_Step /\ target' # NoneV) =>
            /\ lgr'.model_ws = target'[1]
            /\ Len(events') = Len(C6_Order)
            /\ \A k \in DOMAIN C6_Order :
                  /\ events'[k].call = "change_model_ws"
                  /\ events'[k].n = C6_Order[k]
                  /\ events'[k].path = C6_Dest(modelWs[C6_Order[k]], target'[1]) ]_vars

\* C6 as amended. The root is new_path when it exists or can be created and
\* the current directory when new_path is None or cannot be created, and r is
\* taken from the model's workspace when its relocation is issued (the one
\* before the call, unless the same model object was relocated earlier in the
\* call).
C6_Root(new_pth) == IF new_pth = NoneV \/ new_pth[1] \in Uncreatable THEN Cwd
                    ELSE new_pth[1]
C6_Earlier(k) == { j \in 1..(k - 1) : C6_Order[j] = C6_Order[k] }
C6_Last(k) == CHOOSE j \in C6_Earlier(k) : \A i \in C6_Earlier(k) : i <= j
C6_Relocation ==
    [][ C6_Step =>
            /\ lgr'.model_ws = C6_Root(target')
            /\ Len(events') = Len(C6_Order)
            /\ \A k \in DOMAIN C6_Order :
                  /\ events'[k].call = "change_model_ws"
                  /\ events'[k].n = C6_Order[k]
                  /\ events'[k].path =
                        C6_Dest(IF C6_Earlier(k) = {} THEN modelWs[C6_Order[k]]
                                ELSE events'[C6_Last(k)].path,
                                C6_Root(target')) ]_vars
C6_Witness ==
    /\ op = "change_model_ws"
    /\ target = Some(P_b)
    /\ err = None
    /\ ncalls = 1
    /\ lgr.model_ws = P_b
    /\ lgr.parent = 1
    /\ lgr.children_models = Some(<<2, 4>>)
    /\ modelWs[2] = <<"/","b","/","s">>
    /\ modelWs[4] = P_b

\* C7. Calling change_model_ws twice in a row with the same target leaves the
\* workspace of the configuration, of the parent and of every child as the
\* first call left them.
C7_Idempotent ==
    [][ ( /\ op = "change_model_ws" /\ err = None
          /\ op' = "change_model_ws" /\ err' = None
          /\ ncalls' = ncalls + 1
          /\ target' = target )
        => (lgr'.model_ws = lgr.model_ws /\ modelWs' = modelWs) ]_vars

\* C8. In every ModflowLgr, built by the constructor or returned by load, the
\* list of child models and the list of LgrChild records have the same length.
C8_Aligned == lgr.built => Count(lgr.children_models) = Count(lgr.children_data)

\* C9. Whenever load or write_name_file (run by write_input) finishes, by
\* returning or by raising, no file handle it opened is still open.
C9_HandlesClosed == op \in { "load", "write_input" } => leaked = 0

\* C10. write_input on a configuration with a parent and a list of children
\* writes the control file first (heading, LGR, grid count, parent name file,
\* grid status, save units, then the handle is closed), then calls the
\* parent's writer once, then each child's writer once in list order; a run
\* cut short by an external writer that raises is a prefix of that sequence.
C10_File ==
    << Ev("open", "", 0, <<>>),
       Ev("write", "heading", 0, <<>>),
       Ev("write", "LGR", 0, <<>>),
       Ev("write", "NGRIDS", Count(lgr.children_models) + 1, <<>>),
       Ev("write", "PARENT NAMEFILE", lgr.parent, modelWs[lgr.parent]),
       Ev("write", "GRIDSTATUS", 0, <<>>),
       Ev("write", "iupbhsv", 0, <<>>),
       Ev("close", "", 0, <<>>) >>
C10_Writers ==
    [k \in 1..(1 + Count(lgr.children_models)) |->
        Ev("write_input", "", (<< lgr.parent >> \o lgr.children_models[1])[k], <<>>)]
C10_Expected == C10_File \o C10_Writers
C10_WriteOrder ==
    (op = "write_input" /\ lgr.parent # 0 /\ lgr.children_models # NoneV) =>
        /\ Len(events) <= Len(C10_Expected)
        /\ events = SubSeq(C10_Expected, 1, Len(events))
        /\ Len(events) > Len(C10_File)
        /\ err = None => events = C10_Expected
C10_Witness ==
    /\ op = "write_input"
    /\ err = None
    /\ lgr.parent = 1
    /\ lgr.children_models = Some(<<3, 2>>)
    /\ Len(events) = 11

=============================================================================
